---- MODULE Spec2Model ----
(***************************************************************************)
(* Streaming delta engine, cooperative cancellation bridge and scoped log  *)
(* sink of deepseek-ocr.rs (crates/android, crates/core).                  *)
(*                                                                         *)
(* Three state machines share this module:                                 *)
(*   SpecToken    CancellationToken / AndroidStopHandle (cancellation.rs,  *)
(*                lib.rs 103-130)                                          *)
(*   Spec         one AndroidOcrEngine::infer session with its             *)
(*                ProgressDispatcher (engine.rs 101-187, 219-276)          *)
(*   SpecLog1     the process-wide log slot and ScopedLogCallback on one   *)
(*                thread, with android_run_ocr (lib.rs 156-180, 263-291)   *)
(* and four specifications combine or vary them:                           *)
(*   SpecDispatch a session with more notifications over short buffers     *)
(*   SpecCancel   a session whose token the host cancels                   *)
(*   SpecLog      the log slot used by two threads at once                 *)
(*   SpecSink     the log slot with dispatch_log calls (lib.rs 293-306)    *)
(***************************************************************************)
EXTENDS Integers, Sequences, FiniteSets, TLC

VARIABLES
    \* ---- CancellationToken ----
    cells,        \* heap of Arc<AtomicBool> allocations: cells[c] is the flag of allocation c
    holders,      \* every live CancellationToken value: holders[t] is the allocation it points to
    origin,       \* ghost: origin[t] is the token created by new() that t was cloned from
    cancelOn,     \* ghost: the holders on which a cancel() call has completed
    lastRead,     \* per token, the outcome of its latest is_cancelled() call
    lastOp,       \* ghost: the operation performed by the latest step
    \* ---- infer session ----
    pc,           \* position of AndroidOcrEngine::infer
    mismatch,     \* ghost: the rendered prompt's "<image>" markers and images.len() differed
    hasProgress,  \* progress.is_some()
    dispatcher,   \* TRUE once ProgressDispatcher::new has run (progress_state is Some)
    last_count,   \* ProgressDispatcher.last_count
    remembered,   \* the text remembered by ProgressDispatcher.tracker
    events,       \* the AndroidProgressEvents delivered to callback.on_progress, in order
    decodeCalls,  \* number of times backend.decode was invoked
    outcome,      \* ghost: length and text of outcome.generated_tokens once decode returned Ok
    nNotify,      \* number of callback invocations made by the backend so far
    call,         \* ghost: the latest handle call and what it did
    hist,         \* ghost: facts about the calls made so far
    \* ---- log sink ----
    slot,         \* LOG_CALLBACK: the installed handler (NoHandler for None)
    stack,        \* per thread, its live ScopedLogCallback guards, innermost last
    lastExit,     \* ghost: the latest scope exit
    \* ---- dispatch_log ----
    frames,       \* per thread, its dispatch_log calls in progress, innermost last
    lastLog       \* ghost: the latest dispatch_log call that returned

tokenVars == <<cells, holders, origin, cancelOn, lastRead, lastOp>>
sessVars == <<pc, mismatch, hasProgress, dispatcher, last_count, remembered,
              events, decodeCalls, outcome, nNotify, call, hist>>
logVars == <<slot, stack, lastExit>>
dispVars == <<frames, lastLog>>
vars == <<tokenVars, sessVars, logVars, dispVars>>

-----------------------------------------------------------------------------
(* Bounds of the model *)

\* AndroidStopHandle::new calls explored
MaxHandles == 2
\* CancellationToken values alive at once (the handles' tokens and their clones)
MaxTokens == 3
\* longest id buffer / generated token sequence the backend hands over
MaxLen == 2
\* progress callback invocations the backend makes during one decode call
MaxNotify == 2
\* segments of the rendered prompt, and images supplied
MaxPrompt == 2
\* progress callback invocations of a longer decode call, over short buffers
MaxCalls == 3
\* nesting depth of android_run_ocr calls on one thread
MaxDepth == 3
\* distinct host log handlers
MaxHandlers == 2
\* dispatch_log calls in progress at once (nested when a handler logs), and
\* scopes open at once while they run
MaxNest == 2
\* TLC integers are 32 bits wide, so the widths of the ids are scaled: an id
\* fits u32 when it lies in 0 .. 2^IdBits - 1 (for 0 .. 2^32 - 1)
IdBits == 3

-----------------------------------------------------------------------------
(* Generic helpers *)

Min(a, b) == IF a <= b THEN a ELSE b

RECURSIVE SeqsUpTo(_, _)
\* all sequences over S of length at most n
SeqsUpTo(S, n) ==
    IF n = 0 THEN {<<>>}
    ELSE LET shorter == SeqsUpTo(S, n - 1)
         IN  shorter \cup {Append(s, x) : s \in {q \in shorter : Len(q) = n - 1}, x \in S}

-----------------------------------------------------------------------------
(* CancellationToken (crates/core/src/cancellation.rs) and AndroidStopHandle *)

NoRead == [seen |-> FALSE, value |-> FALSE, cancelledBefore |-> FALSE]

\* the holders that share their origin with t: t and "all of its clones"
Family(t) == {u \in 1..Len(holders) : origin[u] = origin[t]}

\* ghost: a cancel() has completed on t or on one of its clones
FamilyCancelled(t) == \E u \in Family(t) : u \in cancelOn

TokenInit ==
    /\ cells = <<>>
    /\ holders = <<>>
    /\ origin = <<>>
    /\ cancelOn = {}
    /\ lastRead = <<>>
    /\ lastOp = [op |-> "none", t |-> 0]

\* CancellationToken::new: a fresh allocation holding false
NewFlag == Append(cells, FALSE)

\* AndroidStopHandle::new -> CancellationToken::new()
StopHandleNew ==
    /\ Len(cells) < MaxHandles
    /\ Len(holders) < MaxTokens
    /\ cells' = NewFlag
    /\ holders' = Append(holders, Len(cells) + 1)
    /\ origin' = Append(origin, Len(holders) + 1)
    /\ lastRead' = Append(lastRead, NoRead)
    /\ lastOp' = [op |-> "new", t |-> Len(holders) + 1]
    /\ UNCHANGED cancelOn

\* a clone with a flag of its own, copied from the original's current value
CloneDeep(t) ==
    /\ cells' = Append(cells, cells[holders[t]])
    /\ holders' = Append(holders, Len(cells) + 1)

\* #[derive(Clone)] on CancellationToken: Arc::clone, the clone points to the same flag
CloneToken(t) ==
    /\ cells' = cells
    /\ holders' = Append(holders, holders[t])

\* AndroidStopHandle::token: self.token.clone()
StopHandleToken(t) ==
    /\ t \in 1..Len(holders)
    /\ Len(holders) < MaxTokens
    /\ CloneToken(t)
    /\ origin' = Append(origin, origin[t])
    /\ lastRead' = Append(lastRead, NoRead)
    /\ lastOp' = [op |-> "clone", t |-> t]
    /\ UNCHANGED cancelOn

\* a store that flips the flag instead of setting it
StoreToggle(t) == [cells EXCEPT ![holders[t]] = ~cells[holders[t]]]

\* self.flag.store(true, Ordering::SeqCst)
StoreTrue(t) == [cells EXCEPT ![holders[t]] = TRUE]

\* CancellationToken::cancel / AndroidStopHandle::cancel, one atomic store
Cancel(t) ==
    /\ t \in 1..Len(holders)
    /\ cells' = StoreTrue(t)
    /\ cancelOn' = cancelOn \cup {t}
    /\ lastOp' = [op |-> "cancel", t |-> t]
    /\ UNCHANGED <<holders, origin, lastRead>>

\* self.flag.load(Ordering::SeqCst)
LoadFlag(t) == cells[holders[t]]

\* CancellationToken::is_cancelled / AndroidStopHandle::is_cancelled, one atomic load
IsCancelled(t) ==
    /\ t \in 1..Len(holders)
    /\ lastRead' = [lastRead EXCEPT ![t] =
                       [seen |-> TRUE, value |-> LoadFlag(t),
                        cancelledBefore |-> FamilyCancelled(t)]]
    /\ lastOp' = [op |-> "read", t |-> t]
    /\ UNCHANGED <<cells, holders, origin, cancelOn>>

-----------------------------------------------------------------------------
(* Text: a string is a sequence of characters *)

IsPrefix(p, s) == Len(p) <= Len(s) /\ SubSeq(s, 1, Len(p)) = p

\* length of the longest common prefix of a and b
LcpLen(a, b) ==
    LET n == Min(Len(a), Len(b))
        agree == {k \in 0..n : \A i \in 1..k : a[i] = b[i]}
    IN  CHOOSE k \in agree : \A j \in agree : j <= k

-----------------------------------------------------------------------------
(* Token ids and the detokenizer *)

\* u32::MAX, scaled
U32_MAX == 2^IdBits - 1

\* u32::try_from(id).ok() is Some
FitsU32(id) == id >= 0 /\ id <= U32_MAX

\* the vocabulary: 0 renders "a"; 1 and 2 are the two bytes of the character
\* "e" (byte fallback); every other id is out of the vocabulary
Vocab == {0, 1, 2}

\* the ids a backend hands over: a negative one, the vocabulary, one outside
\* the vocabulary, one too large for u32
Ids == {-1, 0, 1, 2, 3, U32_MAX + 1}

IdSeqs == SeqsUpTo(Ids, MaxLen)

\* the counts a backend reports: up to one more than the buffer holds
Counts == 0..(MaxLen + 1)

RECURSIVE DecodeFrom(_, _)
\* the rendering of s[i..]: an incomplete byte sequence renders as the
\* replacement character "?", so a text can change when a token is appended
DecodeFrom(s, i) ==
    IF i > Len(s) THEN <<>>
    ELSE IF s[i] = 0 THEN <<"a">> \o DecodeFrom(s, i + 1)
    ELSE IF s[i] = 1 /\ i < Len(s) /\ s[i + 1] = 2 THEN <<"e">> \o DecodeFrom(s, i + 2)
    ELSE <<"?">> \o DecodeFrom(s, i + 1)

\* a decode whose failure is taken for an empty text (unwrap_or_default)
TokenizerDecodeOrDefault(s) ==
    IF \E i \in 1..Len(s) : s[i] \notin Vocab
    THEN [ok |-> TRUE, text |-> <<>>]
    ELSE [ok |-> TRUE, text |-> DecodeFrom(s, 1)]

\* Tokenizer::decode(&token_slice, true): fails on an id outside the vocabulary
TokenizerDecode(s) ==
    IF \E i \in 1..Len(s) : s[i] \notin Vocab
    THEN [ok |-> FALSE, text |-> <<>>]
    ELSE [ok |-> TRUE, text |-> DecodeFrom(s, 1)]

-----------------------------------------------------------------------------
(* DeltaTracker (deepseek_ocr_core::streaming), from its contract *)

\* DeltaTracker::advance(full_text, is_final): the delta and the text remembered
\* afterwards; is_final does not change the logic
Advance(mem, full_text, is_final) ==
    IF IsPrefix(mem, full_text)
    THEN [delta |-> SubSeq(full_text, Len(mem) + 1, Len(full_text)),
          remembered |-> full_text]
    ELSE [delta |-> SubSeq(full_text, LcpLen(mem, full_text) + 1, Len(full_text)),
          remembered |-> full_text]

-----------------------------------------------------------------------------
(* ProgressDispatcher (crates/android/src/engine.rs 219-276) *)

\* a slice taken from the whole buffer
TokenSliceAll(ids, upto) == SelectSeq(ids, FitsU32)

\* ids[..upto].iter().filter_map(|&id| u32::try_from(id).ok()).collect()
TokenSlice(ids, upto) == SelectSeq(SubSeq(ids, 1, upto), FitsU32)

\* an event that is always marked final
EventAlwaysFinal(count, delta, is_final) ==
    [token_count |-> Min(count, U32_MAX), delta_text |-> delta, is_final |-> TRUE]

\* an event that reports the count of the previous accepted notification
EventLastCount(count, delta, is_final) ==
    [token_count |-> Min(last_count, U32_MAX), delta_text |-> delta, is_final |-> is_final]

\* the AndroidProgressEvent built at engine.rs 262-266
Event(count, delta, is_final) ==
    [token_count |-> Min(count, U32_MAX), delta_text |-> delta, is_final |-> is_final]

NoCall == [seq |-> 0, count |-> 0, is_final |-> FALSE, decoded |-> FALSE, text |-> <<>>,
           exact |-> TRUE, dropped |-> FALSE, unknown |-> FALSE]

RECURSIVE FirstU32(_, _, _)
\* ghost: the elements at positions i..n of ids that are u32 values, in order
FirstU32(ids, i, n) ==
    IF i > n \/ i > Len(ids) THEN <<>>
    ELSE (IF ids[i] \in 0..U32_MAX THEN <<ids[i]>> ELSE <<>>) \o FirstU32(ids, i + 1, n)

\* ghost: the call just made
\*   decoded  tracker.advance ran, on text
\*   exact    the slice built for tokenizer.decode was the u32 values among the
\*            first count elements of ids, in order
\*   dropped  some of the first count elements of ids was not a u32 value
\*   unknown  that slice held an id the tokenizer does not know
Called(count, ids, is_final, decoded, text, slice) ==
    [seq |-> call.seq + 1, count |-> count, is_final |-> is_final,
     decoded |-> decoded, text |-> text,
     exact |-> (slice = FirstU32(ids, 1, count)),
     dropped |-> (\E i \in 1..Len(ids) : i <= count /\ ids[i] \notin 0..U32_MAX),
     unknown |-> (\E i \in 1..Len(slice) : slice[i] \notin Vocab)]

\* a dispatcher that applies the stale check to final notifications as well
RejectedFinalToo(count, is_final) == count <= last_count

\* a dispatcher that lets stale notifications through
RejectedOnlyZero(count, is_final) == count = 0

\* a dispatcher that lets a repeated count through
RejectedBelow(count, is_final) == (~is_final /\ count < last_count) \/ count = 0

\* the early return of engine.rs 237: a stale non-final notification, or count 0
Rejected(count, is_final) == (~is_final /\ count <= last_count) \/ count = 0

\* a dispatcher that delivers every delta
ShouldEmitAlways(delta) == TRUE

\* a dispatcher that holds back a delta of one character
ShouldEmitLong(delta) == Len(delta) > 1

\* engine.rs 261: an event is delivered only for a non-empty delta
ShouldEmit(delta) == delta # <<>>

\* a dispatcher that keeps last_count on every early return
LastCountOnRejectKeep(count) == last_count

\* engine.rs 238-240: if count == 0 { self.last_count = 0; }
LastCountOnReject(count) == IF count = 0 THEN 0 ELSE last_count

\* a dispatcher that returns early on an empty slice without noting the count
LastCountOnSkipKeep(count) == last_count

\* engine.rs 245-248, 254-257: self.last_count = count; return;
LastCountOnSkip(count) == count

\* ProgressDispatcher::handle
handle(count, ids, is_final) ==
    IF Rejected(count, is_final)
    THEN /\ last_count' = LastCountOnReject(count)
         /\ call' = [NoCall EXCEPT !.seq = call.seq + 1, !.count = count,
                                   !.is_final = is_final]
         /\ UNCHANGED <<remembered, events>>
    ELSE LET upto == Min(count, Len(ids))
             token_slice == TokenSlice(ids, upto)
             decoded == TokenizerDecode(token_slice)
             adv == Advance(remembered, decoded.text, is_final)
         IN  IF upto = 0 \/ token_slice = <<>> \/ ~decoded.ok
             THEN /\ last_count' = (IF upto = 0 \/ token_slice = <<>>
                                     THEN LastCountOnSkip(count)
                                     ELSE count)
                  /\ call' = Called(count, ids, is_final, FALSE, <<>>, token_slice)
                  /\ UNCHANGED <<remembered, events>>
             ELSE /\ remembered' = adv.remembered
                  /\ events' = (IF ShouldEmit(adv.delta)
                                THEN Append(events, Event(count, adv.delta, is_final))
                                ELSE events)
                  /\ last_count' = count
                  /\ call' = Called(count, ids, is_final, TRUE, decoded.text, token_slice)

\* a finalize that is skipped once some token has been cancelled
finalizeUnlessCancelled(tokens) ==
    IF \E c \in 1..Len(cells) : cells[c]
    THEN UNCHANGED <<last_count, remembered, events, call>>
    ELSE handle(Len(tokens), tokens, TRUE)

\* a finalize that marks its notification as not final
finalizeNotFinal(tokens) == handle(Len(tokens), tokens, FALSE)

\* ProgressDispatcher::finalize
finalize(tokens) == handle(Len(tokens), tokens, TRUE)

-----------------------------------------------------------------------------
(* AndroidOcrEngine::infer (crates/android/src/engine.rs 101-187) *)

\* a rendered prompt is a sequence of segments: an "<image>" marker or other text
Segments == {"<image>", "txt"}

\* what render_prompt returns: an error, or a prompt
RenderResults ==
    {[ok |-> FALSE, prompt |-> <<>>]}
        \cup {[ok |-> TRUE, prompt |-> q] : q \in SeqsUpTo(Segments, MaxPrompt)}

\* prompt.matches("<image>").count()
CountMarkers(prompt) == Cardinality({i \in 1..Len(prompt) : prompt[i] = "<image>"})

\* a check that only asks for enough images
SlotsAtMost(s, n) == s <= n

\* the condition of ensure! at engine.rs 112-116
SlotsMatch(s, n) == s = n

NoHist == [allAppend |-> TRUE, maxSeen |-> 0, regress |-> FALSE]

\* ghost: what the calls made so far have in common, after a call (count, is_final)
\*   allAppend  every snapshot given to the tracker extended the remembered text
\*   maxSeen    the largest count any call carried
\*   regress    some call with count 0, or some final call, carried less than maxSeen
HistAfter(count, is_final) ==
    [allAppend |-> hist.allAppend /\ (call'.decoded => IsPrefix(remembered, call'.text)),
     maxSeen |-> IF count > hist.maxSeen THEN count ELSE hist.maxSeen,
     regress |-> hist.regress \/ (count < hist.maxSeen /\ (count = 0 \/ is_final))]

\* ghost: no outcome yet; text is what the detokenizer makes of all generated
\* tokens (of those that are u32 ids)
NoOutcome == [returned |-> FALSE, len |-> 0, text |-> [ok |-> FALSE, text |-> <<>>]]

SessInit ==
    /\ pc = "idle"
    /\ mismatch = FALSE
    /\ hasProgress = FALSE
    /\ dispatcher = FALSE
    /\ last_count = 0
    /\ remembered = <<>>
    /\ events = <<>>
    /\ decodeCalls = 0
    /\ outcome = NoOutcome
    /\ nNotify = 0
    /\ call = NoCall
    /\ hist = NoHist

\* infer, engine.rs 108-167: render the prompt, check the image slots, create the
\* dispatcher when a progress sink was given, and enter backend.decode
InferStart(r, n, progress) ==
    /\ pc = "idle"
    /\ hasProgress' = progress
    /\ mismatch' = (r.ok /\ CountMarkers(r.prompt) # n)
    /\ IF ~r.ok
       THEN /\ pc' = "err_render"
            /\ UNCHANGED <<dispatcher, decodeCalls>>
       ELSE IF ~SlotsMatch(CountMarkers(r.prompt), n)
       THEN /\ pc' = "err_mismatch"
            /\ UNCHANGED <<dispatcher, decodeCalls>>
       ELSE /\ dispatcher' = progress
            /\ decodeCalls' = decodeCalls + 1
            /\ pc' = "decoding"
    /\ UNCHANGED <<last_count, remembered, events, outcome, nNotify, call, hist>>

\* the closure of engine.rs 162-164, invoked by the backend during decode:
\* state.borrow_mut().handle(count, ids, false)
Notify(count, ids) ==
    /\ pc = "decoding"
    /\ dispatcher
    /\ nNotify' = nNotify + 1
    /\ handle(count, ids, FALSE)
    /\ hist' = HistAfter(count, FALSE)
    /\ UNCHANGED <<pc, mismatch, hasProgress, dispatcher, decodeCalls, outcome>>

\* a backend that invokes the callback at most MaxNotify times
BackendNotify(count, ids) ==
    /\ nNotify < MaxNotify
    /\ Notify(count, ids)

\* backend.decode returns Ok(outcome): engine.rs 176-186
BackendReturnOk(toks) ==
    /\ pc = "decoding"
    /\ outcome' = [returned |-> TRUE, len |-> Len(toks),
                   text |-> TokenizerDecode(SelectSeq(toks, FitsU32))]
    /\ IF dispatcher
       THEN /\ finalize(toks)
            /\ hist' = HistAfter(Len(toks), TRUE)
       ELSE UNCHANGED <<last_count, remembered, events, call, hist>>
    /\ pc' = "done"
    /\ UNCHANGED <<mismatch, hasProgress, dispatcher, decodeCalls, nNotify>>

\* an infer that closes the stream before it returns the failure of decode
BackendReturnErrFinalize ==
    /\ pc = "decoding"
    /\ pc' = "err_decode"
    /\ IF dispatcher
       THEN /\ finalize(<<>>)
            /\ hist' = HistAfter(0, TRUE)
       ELSE UNCHANGED <<last_count, remembered, events, call, hist>>
    /\ UNCHANGED <<mismatch, hasProgress, dispatcher, decodeCalls, outcome, nNotify>>

\* an infer that calls backend.decode once more after a first failure
BackendReturnErrRetry ==
    /\ pc = "decoding"
    /\ decodeCalls' = decodeCalls + 1
    /\ pc' = (IF decodeCalls < 2 THEN "decoding" ELSE "err_decode")
    /\ UNCHANGED <<mismatch, hasProgress, dispatcher, last_count, remembered,
                   events, outcome, nNotify, call, hist>>

\* backend.decode returns Err: the ? of engine.rs 175 returns it
BackendReturnErr ==
    /\ pc = "decoding"
    /\ pc' = "err_decode"
    /\ UNCHANGED <<mismatch, hasProgress, dispatcher, last_count, remembered,
                   events, decodeCalls, outcome, nNotify, call, hist>>

-----------------------------------------------------------------------------
(* The log sink: LOG_CALLBACK, ScopedLogCallback and android_run_ocr
   (crates/android/src/lib.rs 156-180, 263-291) *)

\* the slot's initial content, RwLock::new(None)
NoHandler == 0

\* what a host passes as log_callback: None or one of its handlers
Handlers == 0..MaxHandlers

Threads == {1, 2}

\* the steps of android_run_ocr that end in a ? (lib.rs 166, 167, 168, 171-178)
Stages == <<"decode_images", "try_from", "engine_new", "infer">>

NoExit == [thread |-> 0, depth |-> 0, how |-> "none", entry |-> NoHandler]

LogInit ==
    /\ slot = NoHandler
    /\ stack = [t \in Threads |-> <<>>]
    /\ lastExit = NoExit

\* a guard that remembers the handler it installs
InstallPreviousNew(callback) == callback

\* ScopedLogCallback::install, lib.rs 278: let previous = slot.clone()
InstallPrevious(callback) == slot

\* a drop that clears the slot
DropRestoreNone(guard) == NoHandler

\* Drop for ScopedLogCallback, lib.rs 289: *slot = self.previous.clone()
DropRestore(guard) == guard.previous

\* a host callback can run, and the host re-enter android_run_ocr from it, while
\* the call on top of t's stack logs (engine creation with a handler installed,
\* inference) or reports progress (inference)
CanEnter(t) ==
    IF stack[t] = <<>> THEN TRUE
    ELSE LET top == stack[t][Len(stack[t])]
         IN  \/ Stages[top.stage] = "infer"
             \/ Stages[top.stage] = "engine_new" /\ slot # NoHandler

\* android_run_ocr, lib.rs 165: let _scoped_logger = ScopedLogCallback::install(log_callback).
\* The write lock is held across the read and the store, so install is one step.
\* entry is a ghost: the slot's content when the call was entered
RunOcrEnter(t, callback) ==
    /\ Len(stack[t]) < MaxDepth
    /\ CanEnter(t)
    /\ stack' = [stack EXCEPT ![t] =
                    Append(@, [previous |-> InstallPrevious(callback),
                               entry |-> slot, stage |-> 1])]
    /\ slot' = callback
    /\ UNCHANGED lastExit

\* whether the step of android_run_ocr at this stage can fail: EngineArgs::try_from
\* (lib.rs 196-258) returns Ok on every path
CanFail(stage) == Stages[stage] # "try_from"

\* the innermost android_run_ocr call of thread t returns: _scoped_logger is dropped
RunOcrExit(t, how) ==
    LET top == stack[t][Len(stack[t])]
    IN  /\ slot' = DropRestore(top)
        /\ stack' = [stack EXCEPT ![t] = SubSeq(@, 1, Len(@) - 1)]
        /\ lastExit' = [thread |-> t, depth |-> Len(stack[t]),
                        how |-> how, entry |-> top.entry]

\* one step of android_run_ocr, lib.rs 166-179: it succeeds and the call moves on
\* (or returns Ok after the last one), or it fails and ? returns the error
RunOcrStep(t, ok) ==
    /\ stack[t] # <<>>
    /\ LET top == stack[t][Len(stack[t])]
       IN  IF ok /\ top.stage < Len(Stages)
           THEN /\ stack' = [stack EXCEPT ![t][Len(stack[t])].stage = top.stage + 1]
                /\ UNCHANGED <<slot, lastExit>>
           ELSE IF ok
           THEN RunOcrExit(t, "ok")
           ELSE /\ CanFail(top.stage)
                /\ RunOcrExit(t, Stages[top.stage])

\* the scopes open on all threads together
OpenScopes == Len(stack[1]) + Len(stack[2])

-----------------------------------------------------------------------------
(* dispatch_log (crates/android/src/lib.rs 293-306) *)

NoLog == [seen |-> NoHandler, invoked |-> NoHandler, returned |-> FALSE]

DispInit ==
    /\ frames = [t \in Threads |-> <<>>]
    /\ lastLog = NoLog

\* the dispatch_log calls in progress on all threads together
OpenLogs == Len(frames[1]) + Len(frames[2])

\* some dispatch_log call holds a read guard on the slot's RwLock
ReadLocked ==
    \E t \in Threads : \E i \in 1..Len(frames[t]) : frames[t][i].guard

\* the innermost dispatch_log call of thread t is inside callback.on_log
InHandler(t) ==
    frames[t] # <<>> /\ frames[t][Len(frames[t])].pc = "in_handler"

\* thread t runs code that can call into the library: host or engine code
\* outside dispatch_log, or a handler that dispatch_log invoked
Free(t) == frames[t] = <<>> \/ InHandler(t)

\* lib.rs 295-298: take the read lock and clone the slot's content. A writer
\* holds the lock only within one step, so the read lock is always granted.
\*   seen  ghost: the slot's content at the moment of the read
\*   base  ghost: the scopes thread t had open when it called dispatch_log
DispatchRead(t) ==
    /\ Free(t)
    /\ OpenLogs < MaxNest
    /\ frames' = [frames EXCEPT ![t] =
                     Append(@, [pc |-> "holding", callback |-> slot, guard |-> TRUE,
                                seen |-> slot, base |-> Len(stack[t])])]
    /\ UNCHANGED <<logVars, lastLog>>

\* a read block whose guard lives on to the end of the function
ReadBlockEndHold(f) == [f EXCEPT !.pc = "released"]

\* lib.rs 299: the block ends, the read guard is dropped
ReadBlockEnd(f) == [f EXCEPT !.pc = "released", !.guard = FALSE]

DispatchRelease(t) ==
    /\ frames[t] # <<>>
    /\ frames[t][Len(frames[t])].pc = "holding"
    /\ frames' = [frames EXCEPT ![t][Len(frames[t])] = ReadBlockEnd(@)]
    /\ UNCHANGED <<logVars, lastLog>>

\* a result that tells whether a handler is installed when the call returns
DispatchResultNow(f) == slot # NoHandler

\* lib.rs 300-305: true in the Some branch, false otherwise
DispatchResult(f) == f.callback # NoHandler

\* ghost: the call of frame f returned
Logged(f) ==
    [seen |-> f.seen,
     invoked |-> (IF f.pc = "in_handler" THEN f.callback ELSE NoHandler),
     returned |-> DispatchResult(f)]

\* lib.rs 300-305: if let Some(callback) = maybe_callback: on_log is entered,
\* or the call returns false
DispatchInvoke(t) ==
    /\ frames[t] # <<>>
    /\ LET top == frames[t][Len(frames[t])]
       IN  /\ top.pc = "released"
           /\ IF top.callback # NoHandler
              THEN /\ frames' = [frames EXCEPT ![t][Len(frames[t])].pc = "in_handler"]
                   /\ UNCHANGED lastLog
              ELSE /\ frames' = [frames EXCEPT ![t] = SubSeq(@, 1, Len(@) - 1)]
                   /\ lastLog' = Logged(top)
    /\ UNCHANGED logVars

\* on_log returns, with every scope the handler opened closed again, and
\* dispatch_log returns
DispatchReturn(t) ==
    /\ InHandler(t)
    /\ LET top == frames[t][Len(frames[t])]
       IN  /\ Len(stack[t]) = top.base
           /\ frames' = [frames EXCEPT ![t] = SubSeq(@, 1, Len(@) - 1)]
           /\ lastLog' = Logged(top)
    /\ UNCHANGED logVars

\* thread t is inside an android_run_ocr call that it may move on: not in the
\* middle of dispatch_log, and not back in a handler's own code
InRun(t) ==
    /\ stack[t] # <<>>
    /\ \/ frames[t] = <<>>
       \/ InHandler(t) /\ Len(stack[t]) > frames[t][Len(frames[t])].base

\* install and drop take the write lock (lib.rs 274-276, 286-288), which is
\* granted when no read guard is held
SinkEnter(t, callback) ==
    /\ Free(t)
    /\ ~ReadLocked
    /\ OpenScopes < MaxNest
    /\ RunOcrEnter(t, callback)
    /\ UNCHANGED dispVars

\* the android_run_ocr call ends at its first step: image decoding fails and
\* the guard is dropped
SinkExit(t) ==
    /\ InRun(t)
    /\ ~ReadLocked
    /\ RunOcrStep(t, FALSE)
    /\ UNCHANGED dispVars

-----------------------------------------------------------------------------
(* Specifications *)

Init == TokenInit /\ SessInit /\ LogInit /\ DispInit

Next ==
    \/ \E r \in RenderResults, n \in 0..MaxPrompt, progress \in BOOLEAN :
           InferStart(r, n, progress) /\ UNCHANGED <<tokenVars, logVars, dispVars>>
    \/ \E count \in Counts, ids \in IdSeqs :
           BackendNotify(count, ids) /\ UNCHANGED <<tokenVars, logVars, dispVars>>
    \/ \E toks \in IdSeqs :
           BackendReturnOk(toks) /\ UNCHANGED <<tokenVars, logVars, dispVars>>
    \/ BackendReturnErr /\ UNCHANGED <<tokenVars, logVars, dispVars>>

Spec == Init /\ [][Next]_vars

NextToken ==
    \/ StopHandleNew /\ UNCHANGED <<sessVars, logVars, dispVars>>
    \/ \E t \in 1..MaxTokens : StopHandleToken(t) /\ UNCHANGED <<sessVars, logVars, dispVars>>
    \/ \E t \in 1..MaxTokens : Cancel(t) /\ UNCHANGED <<sessVars, logVars, dispVars>>
    \/ \E t \in 1..MaxTokens : IsCancelled(t) /\ UNCHANGED <<sessVars, logVars, dispVars>>

SpecToken == Init /\ [][NextToken]_vars

\* the ids of a backend that generates "a" and the first byte of "e"
ShortIds == {0, 1}

ShortSeqs == SeqsUpTo(ShortIds, MaxLen)

\* a session with a progress sink and a backend that notifies up to MaxCalls
\* times over ShortIds
NextDispatch ==
    \/ InferStart([ok |-> TRUE, prompt |-> <<>>], 0, TRUE)
           /\ UNCHANGED <<tokenVars, logVars, dispVars>>
    \/ \E count \in Counts, ids \in ShortSeqs :
           /\ nNotify < MaxCalls
           /\ Notify(count, ids)
           /\ UNCHANGED <<tokenVars, logVars, dispVars>>
    \/ \E toks \in ShortSeqs :
           BackendReturnOk(toks) /\ UNCHANGED <<tokenVars, logVars, dispVars>>

SpecDispatch == Init /\ [][NextDispatch]_vars

\* a session that is given a clone of a stop handle's token, which the host may
\* cancel before or during the session: AndroidStopHandle::new, then
\* infer(.., Some(handle.token())) (engine.rs 101-107, 174), cancel() from
\* another thread
NextCancel ==
    \/ cells = <<>> /\ StopHandleNew /\ UNCHANGED <<sessVars, logVars, dispVars>>
    \/ /\ pc \in {"idle", "decoding"}
       /\ Cancel(1)
       /\ UNCHANGED <<sessVars, logVars, dispVars>>
    \/ /\ InferStart([ok |-> TRUE, prompt |-> <<>>], 0, TRUE)
       /\ StopHandleToken(1)
       /\ UNCHANGED <<logVars, dispVars>>
    \/ \E count \in Counts, ids \in ShortSeqs :
           BackendNotify(count, ids) /\ UNCHANGED <<tokenVars, logVars, dispVars>>
    \/ \E toks \in ShortSeqs :
           BackendReturnOk(toks) /\ UNCHANGED <<tokenVars, logVars, dispVars>>
    \/ BackendReturnErr /\ UNCHANGED <<tokenVars, logVars, dispVars>>

SpecCancel == Init /\ [][NextCancel]_vars

\* the log sink used by one thread
NextLog1 ==
    \/ \E callback \in Handlers :
           RunOcrEnter(1, callback) /\ UNCHANGED <<tokenVars, sessVars, dispVars>>
    \/ \E ok \in BOOLEAN :
           RunOcrStep(1, ok) /\ UNCHANGED <<tokenVars, sessVars, dispVars>>

SpecLog1 == Init /\ [][NextLog1]_vars

\* the log sink used by the host's threads at once: LOG_CALLBACK is one static
\* (lib.rs 263), so android_run_ocr calls of different threads share the slot
NextLog ==
    \/ \E t \in Threads, callback \in Handlers :
           /\ OpenScopes < MaxDepth
           /\ RunOcrEnter(t, callback)
           /\ UNCHANGED <<tokenVars, sessVars, dispVars>>
    \/ \E t \in Threads, ok \in BOOLEAN :
           RunOcrStep(t, ok) /\ UNCHANGED <<tokenVars, sessVars, dispVars>>

SpecLog == Init /\ [][NextLog]_vars

\* the log sink with its readers: threads that install and drop scopes, and
\* threads (the same or others) that log through dispatch_log
NextSink ==
    \/ \E t \in Threads, callback \in Handlers :
           SinkEnter(t, callback) /\ UNCHANGED <<tokenVars, sessVars>>
    \/ \E t \in Threads : SinkExit(t) /\ UNCHANGED <<tokenVars, sessVars>>
    \/ \E t \in Threads : DispatchRead(t) /\ UNCHANGED <<tokenVars, sessVars>>
    \/ \E t \in Threads : DispatchRelease(t) /\ UNCHANGED <<tokenVars, sessVars>>
    \/ \E t \in Threads : DispatchInvoke(t) /\ UNCHANGED <<tokenVars, sessVars>>
    \/ \E t \in Threads : DispatchReturn(t) /\ UNCHANGED <<tokenVars, sessVars>>

SpecSink == Init /\ [][NextSink]_vars

-----------------------------------------------------------------------------
(* Properties of the cancellation token, under SpecToken *)

\* every is_cancelled() returned true exactly when a cancel() had completed on
\* the token read or on one of its clones
LatchReads ==
    \A t \in 1..Len(holders) :
        lastRead[t].seen => (lastRead[t].value = lastRead[t].cancelledBefore)

\* no flag goes from true back to false, and a cancel() on a token whose flag
\* is already set changes no flag
LatchStep ==
    /\ \A c \in 1..Len(cells) : cells[c] => cells'[c]
    /\ (lastOp'.op = "cancel" /\ LoadFlag(lastOp'.t)) => cells' = cells

\* C1: for a CancellationToken and all of its clones, under any interleaving of
\* cancel() and is_cancelled() calls, is_cancelled() returns false as long as no
\* cancel() has been performed on any clone and true on every holder once one
\* has completed; the flag never goes from true back to false and a repeated
\* cancel() changes nothing.
CancellationLatch == []LatchReads /\ [][LatchStep]_vars

\* a clone reads true although cancel() was only ever called on other holders
\* of its flag, and the same holder was cancelled twice over
WitnessCancellationLatch ==
    \E t \in 1..Len(holders) :
        /\ lastRead[t].seen /\ lastRead[t].value
        /\ t \notin cancelOn
        /\ Cardinality(cancelOn \cap Family(t)) >= 2

-----------------------------------------------------------------------------
(* Properties of one infer session, under Spec *)

NonDecreasing(evs) ==
    \A i \in 1..(Len(evs) - 1) : evs[i].token_count <= evs[i + 1].token_count

\* the positions of the delivered events that carry is_final = true
FinalEvents == {i \in 1..Len(events) : events[i].is_final}

\* a handle call is made in this step
HandleStep == call'.seq = call.seq + 1

\* the events delivered by this step
Delivered == SubSeq(events', Len(events) + 1, Len(events'))

\* C2 as stated: for any sequence of handle calls followed by finalize, the
\* token_count values of the delivered events are non-decreasing in delivery
\* order.
CountsNonDecreasingAlways == NonDecreasing(events)

\* C2, amended: the token_count values of the delivered events are
\* non-decreasing in delivery order provided no call lowers last_count: no
\* notification with count 0 follows one with a larger count, and the finalize
\* sequence is not shorter than the largest count notified.
CountsNonDecreasing == ~hist.regress => NonDecreasing(events)

\* a finished session of three calls, without a regressing call, that delivered
\* a non-final and then a final event
WitnessCountsNonDecreasing ==
    /\ pc = "done" /\ ~hist.regress /\ call.seq = 3
    /\ Len(events) = 2 /\ ~events[1].is_final /\ events[2].is_final
    /\ events[1].token_count < events[2].token_count

\* C3 as stated: in every session that is given a progress sink and whose
\* decode call returns successfully, exactly one delivered event has
\* is_final = true and it is the last event delivered.
TerminalEventAlways ==
    (pc = "done" /\ hasProgress) =>
        (Cardinality(FinalEvents) = 1 /\ Len(events) \in FinalEvents)

\* at most one event is final, it is the last one, and only a returned decode
\* call delivers it
TerminalEventLast ==
    /\ Cardinality(FinalEvents) <= 1
    /\ \A i \in FinalEvents : i = Len(events) /\ pc = "done"

\* the finalize call delivers one final event, unless its delta is empty: the
\* tracker was not run, or the text is a prefix of the remembered text
TerminalEventStep ==
    (pc = "decoding" /\ pc' = "done" /\ dispatcher) =>
        IF ~call'.decoded \/ IsPrefix(call'.text, remembered)
        THEN Delivered = <<>>
        ELSE Len(Delivered) = 1 /\ Delivered[1].is_final

\* C3, amended: in every session that is given a progress sink and whose decode
\* call returns successfully, at most one delivered event has is_final = true
\* and it is the last event delivered; it is delivered exactly when the finalize
\* call yields a non-empty delta, so a session whose generated sequence is
\* empty, is rejected by the detokenizer or adds no text to what was already
\* delivered receives no terminal event.
TerminalEvent == []TerminalEventLast /\ [][TerminalEventStep]_vars

\* a session that delivered two non-final events and then its terminal event
WitnessTerminalEvent ==
    pc = "done" /\ hasProgress /\ Len(events) = 3 /\ FinalEvents = {3}

\* ghost: the event the final flush guarantee describes, with the given count
FullTextEvent(n) ==
    [token_count |-> n, delta_text |-> outcome.text.text, is_final |-> TRUE]

\* C4 as stated: when the backend never invokes the progress callback and
\* returns successfully, finalize delivers exactly one event, with
\* is_final = true, token_count the number of generated tokens and delta_text the
\* detokenization of the generated sequence.
FinalFlushAlways ==
    (pc = "done" /\ hasProgress /\ nNotify = 0) => events = <<FullTextEvent(outcome.len)>>

\* C4, amended: when the backend never invokes the progress callback and returns
\* successfully, finalize delivers exactly one event, with is_final = true,
\* token_count the number of generated tokens (saturated at u32::MAX) and
\* delta_text the detokenization of the generated sequence (of its ids that fit
\* u32), provided that detokenization succeeds and is not empty; otherwise it
\* delivers no event.
FinalFlush ==
    (pc = "done" /\ hasProgress /\ nNotify = 0) =>
        IF outcome.text.ok /\ outcome.text.text # <<>>
        THEN events = <<FullTextEvent(Min(outcome.len, U32_MAX))>>
        ELSE events = <<>>

\* a session without notifications whose two generated tokens are flushed as the
\* single character they render
WitnessFinalFlush ==
    /\ pc = "done" /\ hasProgress /\ nNotify = 0
    /\ events = <<[token_count |-> 2, delta_text |-> <<"e">>, is_final |-> TRUE]>>

\* every delivered event carries text
EventsCarryText == \A i \in 1..Len(events) : events[i].delta_text # <<>>

\* a call whose delta is empty (the text is a prefix of the remembered text)
\* delivers nothing
EmptyDeltaStep ==
    (HandleStep /\ call'.decoded /\ IsPrefix(call'.text, remembered)) => events' = events

\* C5: every ProgressEvent delivered to the host, by a final or a non-final
\* call, has a non-empty delta_text; a notification whose computed delta is
\* empty delivers no event.
DeltaNonEmpty == []EventsCarryText /\ [][EmptyDeltaStep]_vars

\* the second accepted call ran the tracker and delivered nothing: its text
\* was the text already delivered by the first
WitnessDeltaNonEmpty ==
    /\ call.seq = 2 /\ call.decoded /\ Len(events) = 1
    /\ events[1].token_count < call.count
    /\ events[1].delta_text = call.text

RECURSIVE Concat(_)
\* concatenation of a sequence of strings
Concat(ss) == IF ss = <<>> THEN <<>> ELSE Head(ss) \o Concat(Tail(ss))

\* the delta_text of the delivered events, in delivery order
Deltas == [i \in 1..Len(events) |-> events[i].delta_text]

\* C6: delta concatenation law: for any sequence of text snapshots in which each
\* snapshot extends its predecessor by appending, the concatenation in order of
\* the deltas of the events delivered for them equals the last snapshot exactly,
\* with no text duplicated or omitted.
DeltaConcatenation == hist.allAppend => Concat(Deltas) = remembered

\* three calls, each snapshot extending the one before, delivered two deltas
\* that make up the two characters of the last snapshot
WitnessDeltaConcatenation ==
    /\ hist.allAppend /\ call.seq = 3 /\ call.decoded
    /\ Len(events) = 2 /\ Len(remembered) = 2

\* a call whose text does not start with the remembered text delivers the part
\* of the text beyond the longest common prefix of the two (nothing when that
\* part is empty), and the text becomes the remembered text
ResyncStep ==
    (HandleStep /\ call'.decoded /\ ~IsPrefix(remembered, call'.text)) =>
        LET full == call'.text
            d == IF Delivered = <<>> THEN <<>> ELSE Delivered[1].delta_text
            k == Len(full) - Len(d)
        IN  /\ Len(Delivered) <= 1
            /\ remembered' = full
            /\ k >= 0 /\ k <= Len(remembered)
            /\ SubSeq(full, k + 1, Len(full)) = d
            /\ SubSeq(full, 1, k) = SubSeq(remembered, 1, k)
            /\ (k < Len(full) /\ k < Len(remembered)) => full[k + 1] # remembered[k + 1]

\* C7: when advance is called with a full_text that does not start with the
\* remembered text (changed prefix or shorter text), the delta is exactly the
\* part of full_text beyond its longest common prefix with the remembered text,
\* and the remembered text becomes full_text.
Resync == [][ResyncStep]_vars

\* the rendering of the last character changed from "?" to "e": the second
\* snapshot does not extend the first and its delta is the new character
WitnessResync ==
    /\ ~hist.allAppend /\ call.decoded /\ call.seq = 2
    /\ Deltas = <<<<"?">>, <<"e">>>>
    /\ remembered = <<"e">>

\* a non-final call with 0 < count <= last_count changes nothing
StaleStep ==
    (HandleStep /\ ~call'.is_final /\ call'.count > 0 /\ call'.count <= last_count) =>
        /\ events' = events
        /\ last_count' = last_count
        /\ remembered' = remembered

\* C8: monotonic suppression: a non-final handle(count, ids, false) with
\* 0 < count <= last_count is a no-op: it delivers no event and leaves last_count
\* and the remembered text unchanged, as for the 3 and the second 7 of the
\* counts 5, 3, 7, 7, 10.
MonotonicSuppression == [][StaleStep]_vars

\* the second call was non-final with a count below last_count, after an event
\* had been delivered
WitnessMonotonicSuppression ==
    /\ call.seq = 2 /\ ~call.is_final /\ call.count > 0 /\ call.count < last_count
    /\ Len(events) = 1 /\ pc = "decoding"

\* C9: if the number of "<image>" markers in the rendered prompt differs from
\* the number of supplied images, infer fails with the count-mismatch error
\* before any decode work starts: the backend decode is never invoked, no
\* ProgressDispatcher is created and no progress event is delivered.
MismatchFailsBeforeDecode ==
    /\ mismatch => pc = "err_mismatch"
    /\ pc = "err_mismatch" =>
           /\ mismatch
           /\ decodeCalls = 0 /\ ~dispatcher
           /\ events = <<>> /\ call.seq = 0 /\ nNotify = 0

\* infer was given a progress sink and failed on the count mismatch
WitnessMismatchFailsBeforeDecode == pc = "err_mismatch" /\ hasProgress /\ mismatch

-----------------------------------------------------------------------------
(* Properties of the log sink on one thread, under SpecLog1 *)

\* a step in which thread t leaves its innermost scope
ScopeExit(t) == Len(stack'[t]) < Len(stack[t])

\* C10: scoped log sink: for any properly nested sequence of ScopedLogCallback
\* installs and drops on one thread, each scope exit restores the slot to the
\* handler (possibly none) that was present immediately before that scope's
\* install; after android_run_ocr returns, through success or through a failure
\* exit, the slot equals its value at entry.
ScopedRestore ==
    [][\A t \in Threads :
           ScopeExit(t) => slot' = stack[t][Len(stack[t])].entry]_vars

\* a nested android_run_ocr call has just failed at engine creation and put
\* back the handler of the call around it
WitnessScopedRestore ==
    /\ lastExit.how = "engine_new" /\ lastExit.depth = 2
    /\ lastExit.entry # NoHandler /\ slot = lastExit.entry
    /\ Len(stack[1]) = 1


-----------------------------------------------------------------------------
(* Properties of the log sink shared by several threads, under SpecLog *)

\* C11: scopes of different threads may overlap and end in any order; once
\* every scope has exited, the slot holds the handler that was installed before
\* the first scope was entered (none, in a process that starts with an empty
\* slot), so no handler of an exited scope remains installed
ConcurrentRestore ==
    (\A t \in Threads : stack[t] = <<>>) => slot = NoHandler

-----------------------------------------------------------------------------
(* Properties of one infer session, under Spec: decode failure and ordering *)

\* backend.decode has been invoked once when infer is in or past the decode
\* call, and never before
DecodeInvokedOnce ==
    decodeCalls = (IF pc \in {"decoding", "done", "err_decode"} THEN 1 ELSE 0)

\* a failing decode call ends the session: the step that takes the failure
\* leaves what was delivered as it is, and nothing happens after it
DecodeFailureStep ==
    /\ pc # "err_decode"
    /\ pc' = "err_decode" => (pc = "decoding" /\ UNCHANGED <<decodeCalls, events, call>>)

\* C12: when backend.decode fails, infer returns that failure and the session
\* ends there; decode is invoked exactly once per infer call, never retried
DecodeFailureTerminal == []DecodeInvokedOnce /\ [][DecodeFailureStep]_vars

WitnessDecodeFailureTerminal ==
    pc = "err_decode" /\ decodeCalls = 1 /\ nNotify = MaxNotify /\ events # <<>>

\* the latest step delivered an event while the session already had a final one
EventAfterFinal == FinalEvents # {} /\ events' # events

\* handle is called with is_final = false only by the callback, while decode
\* runs, and with is_final = true only by the step on which decode returns
CallPlacement ==
    HandleStep =>
        /\ pc = "decoding"
        /\ call'.is_final <=> pc' = "done"
        /\ ~call'.is_final <=> pc' = "decoding"

\* C13: within a session no event is delivered after an event with
\* is_final = true; every non-final handle call happens inside backend.decode
\* and the one finalize call after it has returned
NothingAfterFinal ==
    /\ [](\A i \in FinalEvents : i = Len(events))
    /\ [][~EventAfterFinal /\ CallPlacement]_vars
    /\ [](pc = "done" /\ dispatcher => call.is_final /\ call.seq = nNotify + 1)

WitnessNothingAfterFinal ==
    /\ pc = "done"
    /\ Len(events) = MaxNotify + 1
    /\ events[Len(events)].is_final
    /\ \A i \in 1..MaxNotify : ~events[i].is_final

-----------------------------------------------------------------------------
(* Properties of the dispatcher over longer decode calls, under SpecDispatch *)

\* a handle call with count 0 delivers nothing, keeps the remembered text and
\* sets last_count to 0
ZeroResetStep ==
    HandleStep /\ call'.count = 0 =>
        /\ events' = events
        /\ remembered' = remembered
        /\ last_count' = 0

\* the non-final call that follows a call with count 0 is acted upon whatever
\* its count above 0 is
AfterResetStep ==
    HandleStep /\ call.seq > 0 /\ call.count = 0 /\ ~call'.is_final /\ call'.count > 0 =>
        last_count' = call'.count

\* C14: a handle call with count = 0, final or not, delivers no event, leaves
\* the remembered text unchanged and resets last_count to 0, so the next
\* non-final notification with a count above 0 is accepted even when that count
\* is lower than counts handled before the reset
ZeroCountReset == [][ZeroResetStep /\ AfterResetStep]_vars

\* after a reset a non-final event with a lower token_count was delivered
WitnessZeroCountReset ==
    /\ Len(events) = 2
    /\ ~events[2].is_final
    /\ events[2].token_count < events[1].token_count
    /\ hist.regress
    /\ last_count = events[2].token_count

-----------------------------------------------------------------------------
(* Properties of final notifications, under Spec *)

\* decode returns Ok to a session with a dispatcher: the step that calls finalize
FinalizeStep == pc = "decoding" /\ pc' = "done" /\ dispatcher

\* the final notification carries a count that does not exceed last_count, and
\* is still processed: last_count becomes its count, a non-empty detokenized
\* text becomes the remembered text, and what of it was not emitted before is
\* delivered in one event marked final
StaleFinalStep ==
    FinalizeStep /\ outcome'.len <= last_count =>
        LET full == outcome'.text
            unsent == SubSeq(full.text, LcpLen(remembered, full.text) + 1, Len(full.text))
        IN  /\ last_count' = outcome'.len
            /\ full.ok /\ full.text # <<>> =>
                   /\ call'.decoded
                   /\ remembered' = full.text
                   /\ Delivered =
                          IF unsent = <<>> THEN <<>>
                          ELSE <<[token_count |-> Min(outcome'.len, U32_MAX),
                                  delta_text |-> unsent, is_final |-> TRUE]>>

\* C15: a final notification is processed even when its count does not exceed
\* last_count: handle(count, ids, true) detokenizes and runs the delta tracker,
\* so text not emitted yet is flushed in an event marked final
FinalUnconditional == [][StaleFinalStep]_vars

\* a final event flushed text under a lower token_count than the event before it
WitnessFinalUnconditional ==
    /\ pc = "done"
    /\ Len(events) = 2
    /\ events[2].is_final
    /\ events[2].token_count < events[1].token_count
    /\ events[2].delta_text # <<>>

-----------------------------------------------------------------------------
(* Properties of the id slice and of last_count, under Spec *)

\* a call is acted upon when its count is above 0 and it is final or its count
\* is above last_count; the final call is the one made when decode returns
AcceptedStep ==
    HandleStep /\ call'.count > 0 /\ (pc' = "done" \/ call'.count > last_count)

\* a call whose ids held a value that is not a u32 among the first count still
\* runs to its end: the count is noted and the session goes on
InvalidIdStep ==
    HandleStep /\ call'.dropped =>
        /\ AcceptedStep
        /\ last_count' = call'.count
        /\ pc' \in {"decoding", "done"}

\* C16: for an accepted notification the ids passed to the detokenizer are
\* exactly the elements of ids[0 .. min(count, len)] that are u32 values, in
\* their order; ids at positions >= count play no part, and an id that is not
\* a u32 value is dropped without ending the call
SliceExact == [](call.exact) /\ [][InvalidIdStep]_vars

\* an event was delivered from a buffer whose first count ids held a dropped one
WitnessSliceExact ==
    call.dropped /\ call.decoded /\ call.exact /\ call.count > Len(call.text)
        /\ events # <<>> /\ events[Len(events)].token_count = call.count

\* the detokenizer rejected the slice: nothing delivered, nothing forgotten,
\* the count noted, and the caller goes on (a final call still ends in Ok)
DetokFailureStep ==
    HandleStep /\ call'.unknown =>
        /\ events' = events
        /\ remembered' = remembered
        /\ ~call'.decoded
        /\ last_count' = call'.count
        /\ pc' \in {"decoding", "done"}

\* the call after a rejected slice detokenizes a longer text: everything of it
\* that the remembered text does not hold is delivered
AfterFailureStep ==
    HandleStep /\ call.unknown /\ call'.decoded /\ IsPrefix(remembered, call'.text) =>
        IF call'.text = remembered
        THEN Delivered = <<>>
        ELSE /\ Len(Delivered) = 1
             /\ remembered \o Delivered[1].delta_text = call'.text

\* C17: when the detokenizer rejects the slice of an accepted notification,
\* handle delivers no event, raises no error and leaves the remembered text
\* unchanged, so a later snapshot that detokenizes emits all text not delivered yet
DetokFailureSilent == [][DetokFailureStep /\ AfterFailureStep]_vars

\* a slice was rejected after text had been delivered
WitnessDetokFailureSilent ==
    /\ call.unknown
    /\ call.seq = 2
    /\ events # <<>>
    /\ remembered # <<>>
    /\ last_count = call.count
    /\ last_count > events[Len(events)].token_count

\* C18: after every accepted notification (count > 0, and final or
\* count > last_count) last_count is that count, whether or not an event was
\* delivered, and at most one event was delivered
AcceptedCountNoted ==
    [][AcceptedStep =>
          /\ last_count' = call'.count
          /\ Len(events') <= Len(events) + 1
          /\ SubSeq(events', 1, Len(events)) = events]_vars

\* an accepted notification whose ids were all dropped: no event, count noted
WitnessAcceptedCountNoted ==
    /\ call.dropped
    /\ ~call.decoded
    /\ ~call.unknown
    /\ last_count = call.count
    /\ events # <<>>
    /\ last_count > events[Len(events)].token_count

\* C19 as stated: at every point of a session last_count is the highest count
\* of any notification acted upon so far, so it never decreases
LastCountIsHighest == last_count = hist.maxSeen

\* last_count goes down only on a call with count 0 or on the final call
LastCountDropStep ==
    last_count' < last_count => HandleStep /\ (call'.count = 0 \/ pc' = "done")

\* C19, amended: last_count is the highest count handled so far as long as no
\* call carried count 0 and the final call carried no lower count than an
\* earlier one; it decreases only on a call with count 0 (to 0) or on the final
\* call (to that call's count)
LastCountHighestUntilReset ==
    /\ [](~hist.regress => last_count = hist.maxSeen)
    /\ [][LastCountDropStep]_vars

WitnessLastCountHighestUntilReset ==
    /\ pc = "done"
    /\ nNotify = MaxNotify
    /\ ~hist.regress
    /\ last_count = hist.maxSeen
    /\ last_count > 1
    /\ Len(events) = 2

-----------------------------------------------------------------------------
(* Properties of a session whose token is cancelled, under SpecCancel *)

\* the token given to infer (a clone of the stop handle's) is set
SessionCancelled == Len(holders) >= 2 /\ LoadFlag(2)

\* a cancel() call that took effect
CancelStep == cancelOn' # cancelOn

\* cancel() sets the flag shared by the handle and the session's token, and
\* nothing else: the session is where it was, with what it had delivered
CancelOnlySetsFlag ==
    CancelStep =>
        /\ cells' = [cells EXCEPT ![holders[1]] = TRUE]
        /\ UNCHANGED <<holders, sessVars>>

\* whatever the flag is, a notification of the backend reaches handle as a
\* non-final call, the return of decode is followed by the finalize call over
\* all generated tokens and by infer's Ok, and no step of the session writes
\* the flag
FlagNotConsulted ==
    /\ nNotify' = nNotify + 1 => HandleStep /\ ~call'.is_final /\ pc' = "decoding"
    /\ FinalizeStep =>
           HandleStep /\ call'.is_final /\ call'.count = outcome'.len /\ outcome'.returned
    /\ sessVars' # sessVars => cells' = cells

\* C20: cancel() at any point of a session only sets the flag; infer and the
\* dispatcher never read it, so notifications are handled, finalize is called
\* and infer returns as without it; a cancelled session whose backend returns
\* still gets its finalize call
CancelCooperative == [][CancelOnlySetsFlag /\ FlagNotConsulted]_vars

\* a session cancelled before decode returned ended with a final event
WitnessCancelCooperative ==
    /\ SessionCancelled
    /\ pc = "done"
    /\ call.is_final
    /\ events # <<>>
    /\ events[Len(events)].is_final

-----------------------------------------------------------------------------
(* Properties of a session whose decode call fails, under Spec *)

\* C21: when backend.decode fails, also after it issued notifications,
\* finalize is never invoked: every handle call made was one of the backend's
\* non-final notifications, no delivered event has is_final = true, and no
\* outcome was taken
NoFinalizeOnFailure ==
    pc = "err_decode" =>
        /\ ~call.is_final
        /\ call.seq = nNotify
        /\ FinalEvents = {}
        /\ \A i \in 1..Len(events) : ~events[i].is_final
        /\ ~outcome.returned

\* decode failed after every notification it made had delivered an event
WitnessNoFinalizeOnFailure ==
    /\ pc = "err_decode"
    /\ Len(events) = MaxNotify
    /\ call.seq = MaxNotify
    /\ call.decoded

-----------------------------------------------------------------------------
(* Properties of dispatch_log, under SpecSink *)

\* no dispatch_log call is inside on_log with its read guard still held
NoGuardInHandler ==
    \A t \in Threads : \A i \in 1..Len(frames[t]) :
        frames[t][i].pc = "in_handler" => ~frames[t][i].guard

\* a thread whose handler runs is never the one that keeps writers out: the
\* read guards held belong to calls that are between their read and release
GuardsAreShort ==
    \A t \in Threads : \A i \in 1..Len(frames[t]) :
        frames[t][i].guard <=> frames[t][i].pc = "holding"

\* the latest call returned true exactly when the slot held a handler at the
\* moment of its read, and invoked that handler and no other
ResultFromRead ==
    /\ lastLog.returned <=> lastLog.seen # NoHandler
    /\ lastLog.invoked = lastLog.seen

\* C22: dispatch_log clones the handler under the read lock, releases the lock
\* and only then calls on_log, so a handler that logs or installs or drops a
\* scope is not blocked by its caller's guard; it returns true exactly when a
\* handler was installed at the moment of the read
LogOutsideLock == NoGuardInHandler /\ GuardsAreShort /\ ResultFromRead

\* a handler is being invoked although every scope has exited and the slot no
\* longer holds it: its scope restored the previous sink after the read
WitnessLogOutsideLock ==
    /\ \A t \in Threads : stack[t] = <<>>
    /\ \E t \in Threads :
           /\ InHandler(t)
           /\ frames[t][Len(frames[t])].callback # slot
           /\ ~frames[t][Len(frames[t])].guard

=============================================================================
